---- MODULE Spec2Model ----
(***************************************************************************)
(* BoschWaterHeater (custom_components/bosch/water_heater.py): the entity  *)
(* wrapper between the Home Assistant host and one DHW circuit of the      *)
(* bosch_thermostat_client library.                                        *)
(*                                                                         *)
(* Python values are encoded as follows:                                   *)
(*   an optional number      None |-> << >>,  v |-> <<v>>                  *)
(*   an optional string      None |-> "None", s |-> s                      *)
(*   a list                  a sequence                                    *)
(*   a handler's return      None |-> << >>,  r |-> <<r>>                  *)
(***************************************************************************)
EXTENDS Integers, Sequences, FiniteSets

VARIABLES
    pc,      \* "new": not constructed, "ready": constructed, "failed": __init__ raised
    self,    \* the attributes of the BoschWaterHeater instance
    dhw,     \* the fields the circuit object of the client library reports
    op,      \* the handler that ran last
    args,    \* the arguments it was called with
    entry,   \* the instance's attributes when it was entered
    calls,   \* the outbound calls made by the handler that ran last
    ret,     \* what the handler that ran last returned
    raised   \* the exception the handler that ran last raised ("None": none)

vars == <<pc, self, dhw, op, args, entry, calls, ret, raised>>

---------------------------------------------------------------------------
(* Bounds of the model *)

\* the temperatures a caller passes are -1..MaxTemp, those the device reports 1..MaxTemp
MaxTemp == 1
\* set_ha_mode's numeric status: -1..MaxStatus
MaxStatus == 1
\* the number of fields in which a device report differs from BaseReport
MaxDeviations == 2

---------------------------------------------------------------------------
(* Constants of the program *)

STATE_OFF == "off"
TEMP_CELSIUS == "TEMP_CELSIUS"
TEMP_FAHRENHEIT == "TEMP_FAHRENHEIT"
SUPPORT_TARGET_TEMPERATURE == 1
SUPPORT_OPERATION_MODE == 2
\* the two flags are distinct bits, so | is +
SUPPORT_FLAGS_HEATER == SUPPORT_TARGET_TEMPERATURE + SUPPORT_OPERATION_MODE
CHARGE == "charge"
DEFAULT_MIN_TEMP == 0
DEFAULT_MAX_TEMP == 100

None == << >>
Some(v) == <<v>>

\* UNITS_CONVERTER.get(code): a dict lookup, None for a code that is no key
UNITS_CONVERTER_get(code) ==
    CASE code = "C" -> TEMP_CELSIUS
      [] code = "F" -> TEMP_FAHRENHEIT
      [] OTHER -> "None"

---------------------------------------------------------------------------
(* The circuit object (bosch_thermostat_client), as far as the wrapper     *)
(* reads it.                                                               *)

Temps == (-1)..MaxTemp
OptTemps == {None} \cup {Some(t) : t \in Temps}

BaseReport ==
    [ name               |-> "dhw1",
      update_initialized |-> TRUE,
      state              |-> "dhw_charging",
      current_temp       |-> Some(45),
      min_temp           |-> Some(30),
      max_temp           |-> Some(65),
      target_temperature |-> Some(1),
      ha_modes           |-> <<"off", "high_demand">>,
      ha_mode            |-> "high_demand",
      setpoint           |-> "hcHigh",
      temp_units         |-> "C" ]

DhwDomain ==
    [ name               |-> {"dhw1"},
      update_initialized |-> BOOLEAN,
      state              |-> {"dhw_charging", "idle"},
      current_temp       |-> {None, Some(45)},
      min_temp           |-> {None, Some(30)},
      max_temp           |-> {None, Some(65)},
      target_temperature |-> {None} \cup {Some(t) : t \in 1..MaxTemp},
      ha_modes           |-> {<< >>, <<"off", "high_demand">>},
      ha_mode            |-> {"off", "high_demand"},
      setpoint           |-> {"off", "hcHigh"},
      temp_units         |-> {"None", "C", "F"} ]

DhwFields == DOMAIN BaseReport

Deviations(r) == Cardinality({f \in DhwFields : r[f] # BaseReport[f]})

\* the reports the circuit object can hold
DhwReports ==
    { r \in [ name               : DhwDomain.name,
              update_initialized : DhwDomain.update_initialized,
              state              : DhwDomain.state,
              current_temp       : DhwDomain.current_temp,
              min_temp           : DhwDomain.min_temp,
              max_temp           : DhwDomain.max_temp,
              target_temperature : DhwDomain.target_temperature,
              ha_modes           : DhwDomain.ha_modes,
              ha_mode            : DhwDomain.ha_mode,
              setpoint           : DhwDomain.setpoint,
              temp_units         : DhwDomain.temp_units ] :
        Deviations(r) <= MaxDeviations }

\* truthiness of the values the wrapper tests
TruthyNum(x) == x # None /\ x # Some(0)
TruthyStr(s) == s # "None" /\ s # ""

---------------------------------------------------------------------------
(* BoschWaterHeater *)

NoSelf ==
    [ dhw |-> "None", name |-> "None", uuid |-> "None", unique_id |-> "None",
      mode |-> "None", state |-> "None",
      target_temperature |-> None, current_temperature |-> None,
      temperature_units |-> "None",
      max_temp |-> None, low_temp |-> None,
      operation_list |-> << >> ]

Uuids == {"uuid1"}
Handles == {"None", "circuit"}

\* __init__(hass, uuid, dhw, gateway): self._dhw.name raises on a None handle
init(uuid, handle) ==
    /\ pc = "new"
    /\ op' = "__init__"
    /\ args' = [uuid |-> uuid, dhw |-> handle]
    /\ entry' = self
    /\ calls' = << >>
    /\ ret' = None
    /\ UNCHANGED dhw
    /\ IF handle = "None"
         THEN /\ pc' = "failed"
              /\ raised' = "AttributeError"
              /\ UNCHANGED self
         ELSE /\ pc' = "ready"
              /\ raised' = "None"
              /\ self' = [ dhw |-> handle,
                           name |-> dhw.name,
                           uuid |-> uuid,
                           unique_id |-> <<dhw.name, uuid>>,
                           mode |-> "None",
                           state |-> "None",
                           target_temperature |-> None,
                           current_temperature |-> None,
                           temperature_units |-> TEMP_CELSIUS,
                           max_temp |-> Some(DEFAULT_MAX_TEMP),
                           low_temp |-> Some(DEFAULT_MIN_TEMP),
                           operation_list |-> << >> ]

\* the properties the host reads
unique_id == self.unique_id
temperature_unit == self.temperature_units
current_operation == self.mode
operation_list == self.operation_list
current_temperature == self.current_temperature
target_temperature == self.target_temperature
min_temp == self.low_temp
max_temp == self.max_temp

\* the features decided from the cached mode
supported_features_cached ==
    IF self.mode = STATE_OFF \/ dhw.setpoint = STATE_OFF
      THEN SUPPORT_OPERATION_MODE
      ELSE SUPPORT_FLAGS_HEATER

supported_features ==
    IF dhw.ha_mode = STATE_OFF \/ dhw.setpoint = STATE_OFF
      THEN SUPPORT_OPERATION_MODE
      ELSE SUPPORT_FLAGS_HEATER

\* the condition of update's if statement
UpdateCondition ==
    \/ self.state # dhw.state
    \/ self.operation_list = dhw.ha_modes
    \/ self.current_temperature # dhw.current_temp
    \/ self.low_temp # dhw.min_temp
    \/ self.max_temp # dhw.max_temp

\* update's assignments without the one to _target_temperature
UpdateSnapshotNoTarget(s) ==
    [ s EXCEPT !.state = dhw.state,
               !.current_temperature = dhw.current_temp,
               !.operation_list = dhw.ha_modes,
               !.mode = dhw.ha_mode,
               !.low_temp = dhw.min_temp,
               !.max_temp = dhw.max_temp ]

\* update's assignments under the if statement
UpdateSnapshot(s) ==
    [ s EXCEPT !.state = dhw.state,
               !.target_temperature = dhw.target_temperature,
               !.current_temperature = dhw.current_temp,
               !.operation_list = dhw.ha_modes,
               !.mode = dhw.ha_mode,
               !.low_temp = dhw.min_temp,
               !.max_temp = dhw.max_temp ]

UpdateUnits(s) ==
    [ s EXCEPT !.temperature_units =
        UNITS_CONVERTER_get(IF TruthyStr(dhw.temp_units) THEN dhw.temp_units ELSE "C") ]

\* an early return that tests the handle alone
UpdateSkipsHandleOnly == self.dhw = "None"

\* update's early return
UpdateSkips == self.dhw = "None" \/ ~dhw.update_initialized

update ==
    /\ pc = "ready"
    /\ op' = "update"
    /\ args' = << >>
    /\ entry' = self
    /\ ret' = None
    /\ raised' = "None"
    /\ UNCHANGED <<pc, dhw>>
    /\ IF UpdateSkips
         THEN UNCHANGED self /\ calls' = << >>
         ELSE IF UpdateCondition
                THEN /\ self' = UpdateSnapshot(UpdateUnits(self))
                     /\ calls' = << <<"async_schedule_update_ha_state">> >>
                ELSE /\ self' = UpdateUnits(self)
                     /\ calls' = << >>

\* a test that forgets the comparison with the cached target temperature
SetTemperatureForwardsAnyValue(target_temp) == TruthyNum(target_temp)

\* kwargs.get(ATTR_TEMPERATURE): None when the key is absent
SetTemperatureForwards(target_temp) ==
    TruthyNum(target_temp) /\ target_temp # self.target_temperature

\* a handler that writes the new target into the snapshot itself
async_set_temperature_optimistic(target_temp) ==
    /\ pc = "ready"
    /\ op' = "async_set_temperature"
    /\ args' = target_temp
    /\ entry' = self
    /\ ret' = None
    /\ raised' = "None"
    /\ UNCHANGED <<pc, dhw>>
    /\ IF SetTemperatureForwards(target_temp)
         THEN /\ calls' = << <<"set_temperature", target_temp[1]>> >>
              /\ self' = [self EXCEPT !.target_temperature = target_temp]
         ELSE /\ calls' = << >>
              /\ UNCHANGED self

async_set_temperature(target_temp) ==
    /\ pc = "ready"
    /\ op' = "async_set_temperature"
    /\ args' = target_temp
    /\ entry' = self
    /\ ret' = None
    /\ raised' = "None"
    /\ UNCHANGED <<pc, dhw, self>>
    /\ calls' = IF SetTemperatureForwards(target_temp)
                  THEN << <<"set_temperature", target_temp[1]>> >>
                  ELSE << >>

\* a test of the status for truth instead of > 0
OperationModeResultTruthy(status) == status # 0

OperationModeResult(status) == status > 0

async_set_operation_mode(operation_mode, status) ==
    /\ pc = "ready"
    /\ op' = "async_set_operation_mode"
    /\ args' = [operation_mode |-> operation_mode, status |-> status]
    /\ entry' = self
    /\ calls' = << <<"set_ha_mode", operation_mode>> >>
    /\ ret' = Some(OperationModeResult(status))
    /\ raised' = "None"
    /\ UNCHANGED <<pc, dhw, self>>

service_charge(value) ==
    /\ pc = "ready"
    /\ op' = "service_charge"
    /\ args' = value
    /\ entry' = self
    /\ calls' = << <<"set_service_call", CHARGE, value>> >>
    /\ ret' = None
    /\ raised' = "None"
    /\ UNCHANGED <<pc, dhw, self>>

\* the host reads the supported_features property
read_supported_features ==
    /\ pc = "ready"
    /\ op' = "supported_features"
    /\ args' = << >>
    /\ entry' = self
    /\ calls' = << >>
    /\ ret' = Some(supported_features)
    /\ raised' = "None"
    /\ UNCHANGED <<pc, dhw, self>>

\* the client library refreshes the circuit: one field takes a new value
DhwReport(f, v) ==
    /\ v # dhw[f]
    /\ [dhw EXCEPT ![f] = v] \in DhwReports
    /\ dhw' = [dhw EXCEPT ![f] = v]
    /\ op' = "dhw"
    /\ args' = << >>
    /\ entry' = self
    /\ calls' = << >>
    /\ ret' = None
    /\ raised' = "None"
    /\ UNCHANGED <<pc, self>>

---------------------------------------------------------------------------

OperationModes == {"off", "high_demand"}
Statuses == (-1)..MaxStatus
ChargeValues == {"start", "stop"}

Init ==
    /\ pc = "new"
    /\ self = NoSelf
    /\ dhw \in DhwReports
    /\ op = "None"
    /\ args = << >>
    /\ entry = NoSelf
    /\ calls = << >>
    /\ ret = None
    /\ raised = "None"

Next ==
    \/ \E u \in Uuids, h \in Handles : init(u, h)
    \/ update
    \/ \E t \in OptTemps : async_set_temperature(t)
    \/ \E m \in OperationModes, s \in Statuses : async_set_operation_mode(m, s)
    \/ \E v \in ChargeValues : service_charge(v)
    \/ read_supported_features
    \/ \E f \in DhwFields : \E v \in DhwDomain[f] : DhwReport(f, v)

Spec == Init /\ [][Next]_vars

---------------------------------------------------------------------------
(* What the claims speak of *)

\* the snapshot fields update publishes
Snapshot(s) ==
    <<s.state, s.target_temperature, s.current_temperature, s.operation_list,
      s.mode, s.low_temp, s.max_temp>>

\* the same fields as the circuit reports them
DeviceSnapshot ==
    <<dhw.state, dhw.target_temperature, dhw.current_temp, dhw.ha_modes,
      dhw.ha_mode, dhw.min_temp, dhw.max_temp>>

Notification == <<"async_schedule_update_ha_state">>
NotificationsIn(cs) == Cardinality({i \in DOMAIN cs : cs[i] = Notification})
SetTemperatureCallsIn(cs) ==
    Cardinality({i \in DOMAIN cs : cs[i][1] = "set_temperature"})

\* update ran on a present, initialised circuit (the circuit is as update read it)
Refreshed == op = "update" /\ entry.dhw # "None" /\ dhw.update_initialized

Commands == {"async_set_temperature", "async_set_operation_mode", "service_charge"}

(* C1: a refresh of a present, initialised circuit whose state, current_temp,
   min_temp and max_temp all equal the cached values issues no notification
   and leaves the snapshot fields as they were, whatever the mode list. *)
C1_UnchangedRefreshIsSilent ==
    ( /\ Refreshed
      /\ entry.state = dhw.state
      /\ entry.current_temperature = dhw.current_temp
      /\ entry.low_temp = dhw.min_temp
      /\ entry.max_temp = dhw.max_temp )
    => /\ NotificationsIn(calls) = 0
       /\ Snapshot(self) = Snapshot(entry)

(* C2: a refresh of a present, initialised circuit whose state differs from
   the cached state sets every tracked field to the circuit's value in that
   call and issues exactly one notification. *)
C2_StateChangePublishesAll ==
    (Refreshed /\ entry.state # dhw.state)
    => /\ Snapshot(self) = DeviceSnapshot
       /\ NotificationsIn(calls) = 1

\* a refresh republished a snapshot whose state and target both went stale
C2_Witness ==
    /\ Refreshed
    /\ entry.state \notin {"None", dhw.state}
    /\ entry.target_temperature # dhw.target_temperature
    /\ Snapshot(self) = DeviceSnapshot
    /\ calls = <<Notification>>

(* C3: a refresh of a circuit whose update_initialized is false changes no
   cached field, the temperature unit included, and issues no notification,
   whatever the circuit reports. *)
C3_UninitialisedRefreshIsNoOp ==
    (op = "update" /\ ~dhw.update_initialized)
    => /\ self = entry
       /\ calls = << >>

\* an uninitialised circuit reports another state and another unit than cached
C3_Witness ==
    /\ op = "update"
    /\ ~dhw.update_initialized
    /\ calls = << >>
    /\ self.state \notin {"None", dhw.state}
    /\ self.temperature_units # UNITS_CONVERTER_get(dhw.temp_units)

(* C4: async_set_temperature with a number that differs from the cached
   target temperature calls the circuit's set_temperature exactly once, with
   that number: for every number, 0 and negatives included, and every cached
   target, None included. *)
C4_NewTemperatureIsForwarded ==
    (op = "async_set_temperature" /\ args # None /\ args # entry.target_temperature)
    => calls = << <<"set_temperature", args[1]>> >>

(* C5: async_set_temperature with no temperature, or with the cached target
   temperature, makes no set_temperature call and raises nothing. *)
C5_MissingOrSameTemperatureIsDropped ==
    (op = "async_set_temperature" /\ (args = None \/ args = entry.target_temperature))
    => /\ SetTemperatureCallsIn(calls) = 0
       /\ raised = "None"

\* the caller passed the number the snapshot already holds
C5_Witness ==
    /\ op = "async_set_temperature"
    /\ args # None
    /\ args = entry.target_temperature
    /\ calls = << >>

(* C6: async_set_operation_mode passes the mode to set_ha_mode exactly once
   and returns true exactly when the status it got is greater than 0. *)
C6_OperationModeResult ==
    op = "async_set_operation_mode"
    => /\ calls = << <<"set_ha_mode", args.operation_mode>> >>
       /\ (args.status > 0 => ret = Some(TRUE))
       /\ (args.status <= 0 => ret = Some(FALSE))

\* a negative status came back and the handler returned false
C6_Witness ==
    /\ op = "async_set_operation_mode"
    /\ args.status < 0
    /\ ret = Some(FALSE)

(* C7: supported_features is SUPPORT_OPERATION_MODE when the circuit's live
   mode or setpoint is the off sentinel and SUPPORT_TARGET_TEMPERATURE |
   SUPPORT_OPERATION_MODE otherwise, whatever the snapshot holds. *)
C7_FeaturesFollowLiveDevice ==
    op = "supported_features"
    => /\ dhw.ha_mode = STATE_OFF => ret = Some(SUPPORT_OPERATION_MODE)
       /\ dhw.setpoint = STATE_OFF => ret = Some(SUPPORT_OPERATION_MODE)
       /\ (dhw.ha_mode # STATE_OFF /\ dhw.setpoint # STATE_OFF)
            => ret = Some(SUPPORT_TARGET_TEMPERATURE + SUPPORT_OPERATION_MODE)

\* the circuit is off while the snapshot, not refreshed since, holds another mode
C7_Witness ==
    /\ op = "supported_features"
    /\ dhw.ha_mode = STATE_OFF
    /\ self.mode # STATE_OFF
    /\ dhw.setpoint # STATE_OFF
    /\ ret = Some(SUPPORT_OPERATION_MODE)

(* C8: the min_temp and max_temp the host reads are never None, and after a
   refresh of a circuit that reports no minimum (maximum) they are
   DEFAULT_MIN_TEMP (DEFAULT_MAX_TEMP). *)
C8_BoundsDefault ==
    pc = "ready"
    => /\ min_temp # None
       /\ max_temp # None
       /\ (Refreshed /\ dhw.min_temp = None) => min_temp = Some(DEFAULT_MIN_TEMP)
       /\ (Refreshed /\ dhw.max_temp = None) => max_temp = Some(DEFAULT_MAX_TEMP)

(* C9: constructing the wrapper with a None circuit handle succeeds, and
   every later refresh of that wrapper is a no-op. *)
C9_NoneHandleIsTolerated ==
    /\ (op = "__init__" /\ args.dhw = "None") => (pc = "ready" /\ raised = "None")
    /\ (op = "update" /\ entry.dhw = "None")
         => (self = entry /\ calls = << >> /\ raised = "None")

(* C10: async_set_temperature, async_set_operation_mode and service_charge
   leave every attribute of the snapshot and the unique id as they were and
   issue no notification; so after a forwarded async_set_temperature(v) the
   target_temperature the host reads is the old one and the same call would
   be forwarded again. *)
C10_CommandsLeaveSnapshot ==
    op \in Commands
    => /\ self = entry
       /\ NotificationsIn(calls) = 0
       /\ (op = "async_set_temperature" /\ calls # << >>)
            => /\ target_temperature = entry.target_temperature
               /\ target_temperature # args
               /\ SetTemperatureForwards(args)

\* a new target was forwarded while a published snapshot holds the old one
C10_Witness ==
    /\ op = "async_set_temperature"
    /\ args # None
    /\ calls = << <<"set_temperature", args[1]>> >>
    /\ entry.target_temperature # None
    /\ target_temperature = entry.target_temperature
    /\ unique_id = entry.unique_id

====
